---- MODULE Spec2Model ----
(***************************************************************************)
(* A model of files.py: the Path wrapper, the directory listers, the       *)
(* metadata collector with its memoised get_file_type, format_size and     *)
(* fix_path, over a small filesystem tree.                                  *)
(*                                                                          *)
(* A string is a sequence of one-character strings.  A Path object is      *)
(* modelled by its _path string; its _separator is Sep(platform), which is *)
(* the same for every Path of one process.                                  *)
(***************************************************************************)
EXTENDS Integers, Sequences, FiniteSets, TLC

VARIABLES
    platform,   \* what utils.platform() answers in this process
    fs,         \* the filesystem: node -> "absent" | "file" | "dir" | "link"
    cache,      \* functools.cache of get_file_type: path string -> result
    segments,   \* the list object a caller hands to Path(...)
    ret         \* the last operation: its name, argument and outcome

vars == <<platform, fs, cache, segments, ret>>

-----------------------------------------------------------------------------
(* Bounds of the model *)

MaxTok == 3      \* a path argument is a concatenation of at most MaxTok tokens
MaxSegs == 2     \* a segment list has at most MaxSegs segments
MaxSegLen == 2   \* a segment has at most MaxSegLen characters
MaxCache == 3    \* get_file_type is called on at most MaxCache distinct paths
MaxDigits == 2   \* a size has at most MaxDigits significant base-1024 digits
MaxShift == 9    \* ... followed by at most MaxShift zero digits

-----------------------------------------------------------------------------
(* Characters and strings *)

\* The code point of a character (Python compares strings by code point).
Ord(c) ==
    CASE c = " " -> 32 [] c = "." -> 46 [] c = "/" -> 47 [] c = ":" -> 58
      [] c = "B" -> 66 [] c = "C" -> 67 [] c = "\\" -> 92 [] c = "a" -> 97
      [] c = "b" -> 98 [] c = "c" -> 99 [] c = "t" -> 116

\* str.lower() on one character.
LowerChar(c) == CASE c = "B" -> "b" [] c = "C" -> "c" [] OTHER -> c

Lower(s) == [i \in 1..Len(s) |-> LowerChar(s[i])]

\* s < t for Python strings: lexicographic by code point.
RECURSIVE StrLess(_, _)
StrLess(s, t) ==
    IF t = <<>> THEN FALSE
    ELSE IF s = <<>> THEN TRUE
    ELSE IF Ord(Head(s)) # Ord(Head(t)) THEN Ord(Head(s)) < Ord(Head(t))
    ELSE StrLess(Tail(s), Tail(t))

StartsWith(s, t) == Len(t) <= Len(s) /\ SubSeq(s, 1, Len(t)) = t

EndsWith(s, t) == Len(t) <= Len(s) /\ SubSeq(s, Len(s) - Len(t) + 1, Len(s)) = t

\* str.split(sep) for a one-character separator drawn from seps: the pieces
\* between separators, the empty ones included.
RECURSIVE Split(_, _)
Split(s, seps) ==
    IF \E i \in 1..Len(s) : s[i] \in seps
    THEN LET i == CHOOSE k \in 1..Len(s) :
                    s[k] \in seps /\ \A j \in 1..(k - 1) : s[j] \notin seps
         IN <<SubSeq(s, 1, i - 1)>> \o Split(SubSeq(s, i + 1, Len(s)), seps)
    ELSE <<s>>

\* sep.join(list)
RECURSIVE Join(_, _)
Join(list, sep) ==
    IF list = <<>> THEN <<>>
    ELSE IF Len(list) = 1 THEN list[1]
    ELSE list[1] \o <<sep>> \o Join(Tail(list), sep)

\* str.strip(): leading and trailing whitespace removed.
RECURSIVE LStrip(_)
LStrip(s) == IF s # <<>> /\ Head(s) = " " THEN LStrip(Tail(s)) ELSE s

RECURSIVE RStrip(_)
RStrip(s) ==
    IF s # <<>> /\ s[Len(s)] = " " THEN RStrip(SubSeq(s, 1, Len(s) - 1)) ELSE s

Strip(s) == RStrip(LStrip(s))

\* list.remove(x): the first occurrence of x removed.
RemoveFirst(list, x) ==
    LET i == CHOOSE k \in 1..Len(list) :
                 list[k] = x /\ \A j \in 1..(k - 1) : list[j] # x
    IN SubSeq(list, 1, i - 1) \o SubSeq(list, i + 1, Len(list))

IsIn(list, x) == \E i \in 1..Len(list) : list[i] = x

\* while '' in list: list.remove('')
RECURSIVE RemoveEmpties(_)
RemoveEmpties(list) ==
    IF IsIn(list, <<>>) THEN RemoveEmpties(RemoveFirst(list, <<>>)) ELSE list

\* repr() of a str: the string in quotes (no character of the model is escaped
\* except the backslash, which repr doubles).
RECURSIVE Escaped(_)
Escaped(s) ==
    IF s = <<>> THEN <<>>
    ELSE (IF Head(s) = "\\" THEN <<"\\", "\\">> ELSE <<Head(s)>>) \o Escaped(Tail(s))

Repr(s) == <<"'">> \o Escaped(s) \o <<"'">>

-----------------------------------------------------------------------------
(* The platform *)

Platforms == {"windows", "linux"}

is_windows(plat) == plat = "windows"

Sep(plat) == IF is_windows(plat) THEN "\\" ELSE "/"

\* The characters the operating system takes as separators in a path.
OsSeps(plat) == IF is_windows(plat) THEN {"\\", "/"} ELSE {"/"}

-----------------------------------------------------------------------------
(* The filesystem the os module reads.  A node is the sequence of names from
   the root to it; the root is always a directory.  The process's working
   directory is the root, on Windows the root of drive C:. *)

NA == <<"a">>

NB == <<"B", ".", "t">>

Root == <<>>

Nodes == {<<NA>>, <<NB>>, <<NA, NB>>}

\* The one symbolic link of the model, when it exists, is NB in the root, and
\* it points at /a.
LinkNode == <<NB>>

LinkTarget == <<NA>>

Kinds == {"absent", "file", "dir", "link"}

Parent(node) == IF node = <<>> THEN <<>> ELSE SubSeq(node, 1, Len(node) - 1)

Kind(f, node) ==
    IF node = Root THEN "dir"
    ELSE IF node \in DOMAIN f THEN f[node]
    ELSE "absent"

Children(f, node) ==
    {n \in Nodes : Parent(n) = node /\ Kind(f, n) # "absent"}

EmptyFs == [n \in Nodes |-> "absent"]

\* Path resolution as stat(2) does it: every component but the last must be a
\* directory, an empty component and "." stay, ".." goes up, a symbolic link
\* is followed.  The outcome is the node found, or the error.  On Windows a
\* path through a non-directory is not found, but which error class Python
\* raises for it is not pinned down here: "EWIN" stands for FileNotFoundError
\* or another OSError.
RECURSIVE WalkFrom(_, _, _, _)
WalkFrom(f, plat, cur, comps) ==
    IF comps = <<>> THEN [st |-> "ok", node |-> cur]
    ELSE IF Kind(f, cur) # "dir"
    THEN [st |-> IF is_windows(plat) THEN "EWIN" ELSE "ENOTDIR", node |-> cur]
    ELSE LET c == Head(comps)
             rest == Tail(comps)
             child == Append(cur, c)
         IN IF c = <<>> \/ c = <<".">> THEN WalkFrom(f, plat, cur, rest)
            ELSE IF c = <<".", ".">> THEN WalkFrom(f, plat, Parent(cur), rest)
            ELSE IF is_windows(plat) /\ IsIn(c, ":")
            THEN [st |-> "EWIN", node |-> cur]
            ELSE IF Kind(f, child) = "absent" THEN [st |-> "ENOENT", node |-> cur]
            ELSE IF Kind(f, child) = "link"
            THEN IF Kind(f, LinkTarget) = "absent"
                 THEN [st |-> "ENOENT", node |-> cur]
                 ELSE WalkFrom(f, plat, LinkTarget, rest)
            ELSE WalkFrom(f, plat, child, rest)

\* The drive prefix of a Windows path ("C:"), or the empty string.
DrivePrefix(plat, s) ==
    IF is_windows(plat) /\ Len(s) >= 2 /\ s[2] = ":" THEN SubSeq(s, 1, 2) ELSE <<>>

AfterDrive(plat, s) == SubSeq(s, Len(DrivePrefix(plat, s)) + 1, Len(s))

\* A Windows path that starts with two separators names a network share;
\* the model has none.
IsUnc(plat, s) ==
    is_windows(plat) /\ Len(s) >= 2 /\ s[1] \in OsSeps(plat) /\ s[2] \in OsSeps(plat)

\* Windows resolves "." and ".." in the text of a path before it looks
\* anything up: "." is dropped and ".." takes the name before it away.
RECURSIVE DropLastName(_)
DropLastName(comps) ==
    IF comps = <<>> THEN <<>>
    ELSE IF comps[Len(comps)] = <<>>
    THEN IF \A i \in 1..Len(comps) : comps[i] = <<>> THEN comps
         ELSE DropLastName(SubSeq(comps, 1, Len(comps) - 1))
    ELSE SubSeq(comps, 1, Len(comps) - 1)

RECURSIVE WinNormFrom(_, _)
WinNormFrom(acc, comps) ==
    IF comps = <<>> THEN acc
    ELSE IF Head(comps) = <<".">> THEN WinNormFrom(acc, Tail(comps))
    ELSE IF Head(comps) = <<".", ".">> THEN WinNormFrom(DropLastName(acc), Tail(comps))
    ELSE WinNormFrom(Append(acc, Head(comps)), Tail(comps))

\* The components the operating system walks for a path.
OsComps(plat, s) ==
    IF is_windows(plat)
    THEN WinNormFrom(<<>>, Split(AfterDrive(plat, s), OsSeps(plat)))
    ELSE Split(s, OsSeps(plat))

Walk(f, plat, s) ==
    IF s = <<>> THEN [st |-> "ENOENT", node |-> Root]
    ELSE IF IsUnc(plat, s) THEN [st |-> "EWIN", node |-> Root]
    ELSE IF DrivePrefix(plat, s) \notin {<<>>, <<"C", ":">>}
    THEN [st |-> "ENOENT", node |-> Root]
    ELSE WalkFrom(f, plat, Root, OsComps(plat, s))

\* os.path.isdir, os.path.isfile: False on every error.
IsDir(f, plat, s) ==
    Walk(f, plat, s).st = "ok" /\ Kind(f, Walk(f, plat, s).node) = "dir"

IsFile(f, plat, s) ==
    Walk(f, plat, s).st = "ok" /\ Kind(f, Walk(f, plat, s).node) = "file"

\* The names in a directory, as strings.
ChildNames(f, node) == {n[Len(n)] : n \in Children(f, node)}

\* The orders os.listdir may return the names of a set in: any.
Orders(S) ==
    {q \in [1..Cardinality(S) -> S] : \A i, j \in 1..Cardinality(S) : i # j => q[i] # q[j]}

\* os.path.realpath (not strict): the components are walked from the root,
\* symbolic links replaced by their targets, what does not exist kept as
\* written; the result is absolute and has no trailing separator.
RECURSIVE RealFrom(_, _, _)
RealFrom(f, cur, comps) ==
    IF comps = <<>> THEN cur
    ELSE LET c == Head(comps)
             rest == Tail(comps)
             child == Append(cur, c)
         IN IF c = <<>> \/ c = <<".">> THEN RealFrom(f, cur, rest)
            ELSE IF c = <<".", ".">> THEN RealFrom(f, Parent(cur), rest)
            ELSE IF Kind(f, child) = "link" THEN RealFrom(f, LinkTarget, rest)
            ELSE RealFrom(f, child, rest)

RootStr(plat) == IF is_windows(plat) THEN <<"C", ":", "\\">> ELSE <<"/">>

Realpath(f, plat, s) ==
    RootStr(plat) \o Join(RealFrom(f, Root, OsComps(plat, s)), Sep(plat))

\* os.path.splitext(s)[1]: the part of the last component from its last dot,
\* unless only dots precede that dot in the component.
Basename(plat, s) ==
    LET parts == Split(s, OsSeps(plat)) IN parts[Len(parts)]

SplitExt(plat, s) ==
    LET b == Basename(plat, s)
        dots == {i \in 1..Len(b) : b[i] = "."}
    IN IF dots = {} THEN <<>>
       ELSE LET d == CHOOSE i \in dots : \A j \in dots : j <= i
            IN IF \E j \in 1..(d - 1) : b[j] # "." THEN SubSeq(b, d, Len(b)) ELSE <<>>

\* psutil.disk_partitions(all=True): the mount points of the machine.
Mountpoints(plat) == <<RootStr(plat)>>

-----------------------------------------------------------------------------
(* class Path.  A Path object is its _path string. *)

\* Path.__init__ on a list: what the list object holds when __init__ returns.
\* An empty list is falsy and is replaced by "" before the loop.
ListAfterInit(list) == RemoveEmpties(list)

\* Path.__init__ on a list: the _path of the new object.
PathFromList(plat, list) == Join(ListAfterInit(list), Sep(plat))

\* as_list with "/" written in place of self._separator.
as_list_posix(plat, p) ==
    LET parts == Split(p, {"/"})
    IN RemoveEmpties([i \in 1..Len(parts) |-> Strip(parts[i])])

as_list(plat, p) ==
    LET parts == Split(p, {Sep(plat)})
    IN RemoveEmpties([i \in 1..Len(parts) |-> Strip(parts[i])])

\* valid_dir that asks whether the path exists, not whether it is a directory.
valid_dir_exists(f, plat, p) ==
    IF Walk(f, plat, p).st # "ok" /\ p \notin {<<>>, <<Sep(plat)>>} THEN FALSE ELSE TRUE

valid_dir(f, plat, p) ==
    IF ~IsDir(f, plat, p) /\ p \notin {<<>>, <<Sep(plat)>>} THEN FALSE ELSE TRUE

\* Path.__add__
PathAdd(plat, p, other) == PathFromList(plat, <<p, other>>)

\* Path.__lt__
PathLt(p, q) == StrLess(Lower(p), Lower(q))

get_drives(plat) == Mountpoints(plat)

\* The lists os.listdir(p) may return for a directory p.
Listdir(f, plat, p) ==
    IF Walk(f, plat, p).st = "ok"
    THEN Orders(ChildNames(f, Walk(f, plat, p).node))
    ELSE {<<>>}

\* Path.list_items, listing being what os.listdir answers.
list_items(f, plat, p, listing) ==
    IF p = <<>> THEN get_drives(plat)
    ELSE IF ~valid_dir(f, plat, p) THEN <<>>
    ELSE listing

\* sorted(): a stable sort that compares with __lt__ only.
RECURSIVE InsertSorted(_, _)
InsertSorted(list, x) ==
    IF list = <<>> THEN <<x>>
    ELSE IF PathLt(x, Head(list)) THEN <<x>> \o list
    ELSE <<Head(list)>> \o InsertSorted(Tail(list), x)

RECURSIVE Sorted(_)
Sorted(list) ==
    IF list = <<>> THEN <<>>
    ELSE InsertSorted(Sorted(SubSeq(list, 1, Len(list) - 1)), list[Len(list)])

\* The elements of list that satisfy keep, in order.
RECURSIVE SelectSeqBy(_, _)
SelectSeqBy(list, keep) ==
    IF list = <<>> THEN <<>>
    ELSE (IF Head(list) \in keep THEN <<Head(list)>> ELSE <<>>)
             \o SelectSeqBy(Tail(list), keep)

SeqSet(list) == {list[i] : i \in 1..Len(list)}

get_folders(f, plat, directory, listing) ==
    IF directory = <<>> THEN [st |-> "ok", val |-> get_drives(plat)]
    ELSE IF ~valid_dir(f, plat, directory) THEN [st |-> "FileNotFoundError", val |-> <<>>]
    ELSE LET items == list_items(f, plat, directory, listing)
             chosen == {x \in SeqSet(items) :
                           Len(Split(x, {"."})) <= 1 \/ StartsWith(x, <<".">>)}
             kept == SelectSeqBy(items, chosen)
         IN [st |-> "ok",
             val |-> [i \in 1..Len(kept) |-> PathAdd(plat, directory, kept[i])]]

\* The test of get_files_folders made on the child name alone.
IsFileItemBare(f, plat, file_path, item) == IsFile(f, plat, item)

\* os.path.isfile(full_path) in the loop of get_files_folders.
IsFileItem(f, plat, file_path, item) == IsFile(f, plat, PathAdd(plat, file_path, item))

get_files_folders(f, plat, file_path, listing) ==
    IF ~valid_dir(f, plat, file_path)
    THEN [st |-> "NotADirectoryError", files |-> <<>>, folders |-> <<>>]
    ELSE LET items == list_items(f, plat, file_path, listing)
             isf == {x \in SeqSet(items) : IsFileItem(f, plat, file_path, x)}
         IN [st |-> "ok",
             files |-> Sorted(SelectSeqBy(items, isf)),
             folders |-> Sorted(SelectSeqBy(items, SeqSet(items) \ isf))]

-----------------------------------------------------------------------------
(* format_size.  A size is a natural number written as its base-1024 digits,
   least significant first, so that 1024^8 and more are within reach.  While
   the loop runs, the float it divides is the pair (digits, s): the number
   the digits spell, divided by 1024^s.  The sizes of the model have at most
   53 significant bits, so every division of the float is exact. *)

Base == 1024

Units == <<"B", "KB", "MB", "GB", "TB", "PB", "EB", "ZB">>

Digit(d, i) == IF i >= 1 /\ i <= Len(d) THEN d[i] ELSE 0

\* The digits without leading (most significant) zeros.
RECURSIVE Trim(_)
Trim(d) ==
    IF d # <<>> /\ d[Len(d)] = 0 THEN Trim(SubSeq(d, 1, Len(d) - 1)) ELSE d

RECURSIVE AddOne(_)
AddOne(d) ==
    IF d = <<>> THEN <<1>>
    ELSE IF Head(d) + 1 < Base THEN <<Head(d) + 1>> \o Tail(d)
    ELSE <<0>> \o AddOne(Tail(d))

\* size < 1024 for the float (d, s)
Below1024(d, s) == \A i \in (s + 2)..Len(d) : d[i] = 0

\* The hundredths in the fraction of (d, s), from digit i down: how many whole
\* hundredths (c), what is left of the next one in 1024ths (r), and whether
\* anything is left below that (sticky).
RECURSIVE FracUpTo(_, _)
FracUpTo(d, i) ==
    IF i = 0 THEN [c |-> 0, r |-> 0, sticky |-> FALSE]
    ELSE LET low == FracUpTo(d, i - 1)
             t == Digit(d, i) * 100 + low.c
         IN [c |-> t \div Base, r |-> t % Base,
             sticky |-> low.sticky \/ low.r # 0]

\* f"{size:.2f}" for the float (d, s): the whole part and the two decimals,
\* rounded to the nearest hundredth, a tie to the even one.
Fmt2f(d, s) ==
    LET fr == FracUpTo(d, s)
        half == Base \div 2
        up == \/ fr.r > half
              \/ fr.r = half /\ fr.sticky
              \/ fr.r = half /\ ~fr.sticky /\ fr.c % 2 = 1
        cents == fr.c + (IF up THEN 1 ELSE 0)
        whole == Trim(SubSeq(d, s + 1, Len(d)))
    IN IF cents = 100 THEN [whole |-> AddOne(whole), cents |-> 0]
       ELSE [whole |-> whole, cents |-> cents]

\* The loop of format_size, entered with unit number s (from 0) after s divisions.
RECURSIVE FormatFrom(_, _)
FormatFrom(d, s) ==
    IF s = Len(Units) THEN [num |-> Fmt2f(d, s), unit |-> Units[Len(Units)]]
    ELSE IF Below1024(d, s) THEN [num |-> Fmt2f(d, s), unit |-> Units[s + 1]]
    ELSE FormatFrom(d, s + 1)

format_size(d) == FormatFrom(d, 0)

-----------------------------------------------------------------------------
(* get_file_type and get_file_metadata *)

Folder ==
    <<"F", "o", "l", "d", "e", "r">>

FileNotFoundText ==
    <<"F", "i", "l", "e", " ", "n", "o", "t", " ", "f", "o", "u", "n", "d",
      ":", " ">>

\* str(e) of the OSError os.stat raised, up to the file name.
OsErrorText(raised) ==
    IF raised = "NotADirectoryError"
    THEN
    <<"[", "E", "r", "r", "n", "o", " ", "2", "0", "]", " ", "N", "o", "t",
      " ", "a", " ", "d", "i", "r", "e", "c", "t", "o", "r", "y", ":", " ">>
    ELSE
    <<"[", "W", "i", "n", "E", "r", "r", "o", "r", " ", "1", "2", "3", "]",
      " ">>

\* What stat(2) answers for a node: its size, its modification time, and
\* whether the account database knows its owner.
StSize(node) == IF Len(node) = 1 THEN <<512, 1>> ELSE <<0>>

StMtime(node) == Len(node)

OwnerKnown(node) == Len(node) <= 1

\* The exception os.stat(p) raises, "none" when it returns.
StatRaises(f, plat, p) ==
    LET st == Walk(f, plat, p).st
    IN CASE st = "ok" -> {"none"}
         [] st = "ENOENT" -> {"FileNotFoundError"}
         [] st = "ENOTDIR" -> {"NotADirectoryError"}
         [] st = "EWIN" -> {"FileNotFoundError", "OSError"}

_get_windows_owner(node) == IF OwnerKnown(node) THEN "owner" ELSE "Unknown Owner"

_get_unix_owner(node) == IF OwnerKnown(node) THEN "owner" ELSE "Unknown Owner"

\* The body of get_file_type, run when the cache has no entry for the path.
FileTypeFresh(f, plat, p) == IF IsDir(f, plat, p) THEN Folder ELSE SplitExt(plat, p)

\* get_file_type without @cache.
get_file_type_uncached(f, plat, c, p) == FileTypeFresh(f, plat, p)

\* @cache: the stored result when the path is a key of the cache.
get_file_type(f, plat, c, p) ==
    IF p \in DOMAIN c THEN c[p] ELSE FileTypeFresh(f, plat, p)

\* The cache after get_file_type(p).
CacheAfter(f, plat, c, p) ==
    IF p \in DOMAIN c THEN c ELSE (p :> FileTypeFresh(f, plat, p)) @@ c

\* The dict the try block builds when os.stat has returned.
Metadata(f, plat, c, p) ==
    LET node == Walk(f, plat, p).node
    IN ("Path" :> p)
       @@ ("Owner" :> IF is_windows(plat) THEN _get_windows_owner(node)
                                          ELSE _get_unix_owner(node))
       @@ ("Last Modified" :> [timestamp |-> StMtime(node)])
       @@ ("File Size" :> IF ~IsDir(f, plat, p)
                           THEN [size |-> format_size(StSize(node))]
                           ELSE [size |-> "None"])
       @@ ("Item" :> get_file_type(f, plat, c, p))

\* get_file_metadata with no "except Exception" clause.
get_file_metadata_narrow(f, plat, c, p, raised) ==
    IF raised = "none"
    THEN [st |-> "returned", rec |-> Metadata(f, plat, c, p)]
    ELSE IF raised = "FileNotFoundError"
    THEN [st |-> "returned", rec |-> ("Error" :> FileNotFoundText \o Repr(p))]
    ELSE [st |-> "raised", rec |-> <<>>]

\* get_file_metadata, raised being what os.stat does ("none": it returns).
get_file_metadata(f, plat, c, p, raised) ==
    IF raised = "none"
    THEN [st |-> "returned", rec |-> Metadata(f, plat, c, p)]
    ELSE IF raised = "FileNotFoundError"
    THEN [st |-> "returned", rec |-> ("Error" :> FileNotFoundText \o Repr(p))]
    ELSE [st |-> "returned", rec |-> ("Error" :> OsErrorText(raised) \o Repr(p))]

\* The cache after get_file_metadata.
MetadataCacheAfter(f, plat, c, p, raised) ==
    IF raised = "none" THEN CacheAfter(f, plat, c, p) ELSE c

-----------------------------------------------------------------------------
(* fix_path *)

\* re.sub(r"(?<=:)(?!\\)", r"\\", s): a backslash after every colon that has none.
RECURSIVE ColonFix(_)
ColonFix(s) ==
    IF s = <<>> THEN <<>>
    ELSE IF Head(s) = ":" /\ (Len(s) = 1 \/ s[2] # "\\")
    THEN <<":", "\\">> \o ColonFix(Tail(s))
    ELSE <<Head(s)>> \o ColonFix(Tail(s))

\* The path after the first block of fix_path.
Rooted(plat, p) ==
    IF is_windows(plat) THEN ColonFix(p)
    ELSE IF ~StartsWith(p, <<"/">>) /\ p \notin {<<>>, <<"/">>}
    THEN PathAdd(plat, <<"/">>, p)
    ELSE p

\* The path after the separator has been put at its end.
Terminated(plat, p) ==
    LET w == IF is_windows(plat) /\ ~EndsWith(p, <<"\\">>) /\ p # <<>>
             THEN PathAdd(plat, p, <<"\\">>)
             ELSE p
    IN IF ~is_windows(plat) /\ ~EndsWith(w, <<"/">>) /\ w \notin {<<"/">>, <<>>}
       THEN PathAdd(plat, w, <<"/">>)
       ELSE w

\* The last block of fix_path with the final character dropped in place of
\* os.path.realpath.
CanonicalTrim(f, plat, p) ==
    IF p \notin {<<>>, <<"/">>, <<"\\">>} THEN SubSeq(p, 1, Len(p) - 1) ELSE p

\* The last block of fix_path.
Canonical(f, plat, p) ==
    IF p \notin {<<>>, <<"/">>, <<"\\">>} THEN Realpath(f, plat, p) ELSE p

fix_path(f, plat, p) ==
    LET q == Rooted(plat, p)
    IN IF ~valid_dir(f, plat, q) THEN [st |-> "NotADirectoryError", val |-> q]
       ELSE [st |-> "ok", val |-> Canonical(f, plat, Terminated(plat, q))]

-----------------------------------------------------------------------------
(* The arguments the operations are called with *)

RECURSIVE Concat(_)
Concat(list) == IF list = <<>> THEN <<>> ELSE Head(list) \o Concat(Tail(list))

SeqsUpTo(S, n) == UNION {[1..k -> S] : k \in 0..n}

\* What path arguments are made of.
Tokens(plat) ==
    IF is_windows(plat)
    THEN {<<"\\">>, <<"/">>, NA, NB, <<".">>, <<".", ".">>, <<"C", ":">>}
    ELSE {<<"/">>, NA, NB, <<".">>, <<".", ".">>}

PathArgs(plat) == {Concat(q) : q \in SeqsUpTo(Tokens(plat), MaxTok)}

\* The paths get_file_type and get_file_metadata are called with: the empty
\* path, every node by its relative name, and /a by its absolute name.
MetaPaths(plat) ==
    {Join(n, Sep(plat)) : n \in Nodes} \cup {<<>>, <<Sep(plat)>> \o NA}

\* The segment lists Path(...) is built from.
SegChars(plat) == {Sep(plat), "a", " "}

SegLists(plat) == SeqsUpTo(SeqsUpTo(SegChars(plat), MaxSegLen), MaxSegs)

\* The sizes format_size is called with.
DigitSet == {0, 1, 128, 512, 1023}

Zeros(z) == [i \in 1..z |-> 0]

Sizes ==
    {Zeros(z) \o top : z \in 0..MaxShift,
                       top \in {t \in SeqsUpTo(DigitSet, MaxDigits) :
                                   t # <<>> /\ t[Len(t)] # 0}}
        \cup {<<>>}

-----------------------------------------------------------------------------
(* The state machine *)

NoCache == [x \in {} |-> <<>>]

Init ==
    /\ platform \in Platforms
    /\ fs = EmptyFs
    /\ cache = NoCache
    /\ segments = <<>>
    /\ ret = [op |-> "init"]

\* Another process changes the filesystem.
Mkdir(n) ==
    /\ Kind(fs, n) = "absent"
    /\ Kind(fs, Parent(n)) = "dir"
    /\ fs' = [fs EXCEPT ![n] = "dir"]
    /\ ret' = [op |-> "fs"]
    /\ UNCHANGED <<platform, cache, segments>>

Touch(n) ==
    /\ Kind(fs, n) = "absent"
    /\ Kind(fs, Parent(n)) = "dir"
    /\ fs' = [fs EXCEPT ![n] = "file"]
    /\ ret' = [op |-> "fs"]
    /\ UNCHANGED <<platform, cache, segments>>

Symlink ==
    /\ Kind(fs, LinkNode) = "absent"
    /\ fs' = [fs EXCEPT ![LinkNode] = "link"]
    /\ ret' = [op |-> "fs"]
    /\ UNCHANGED <<platform, cache, segments>>

Remove(n) ==
    /\ Kind(fs, n) # "absent"
    /\ Children(fs, n) = {}
    /\ fs' = [fs EXCEPT ![n] = "absent"]
    /\ ret' = [op |-> "fs"]
    /\ UNCHANGED <<platform, cache, segments>>

FsChange ==
    \/ \E n \in Nodes : Mkdir(n)
    \/ \E n \in Nodes : Touch(n)
    \/ Symlink
    \/ \E n \in Nodes : Remove(n)

\* The cache holds at most MaxCache paths in the model.
CacheRoom(p) == p \in DOMAIN cache \/ Cardinality(DOMAIN cache) < MaxCache

CallFileType(p) ==
    /\ CacheRoom(p)
    /\ ret' = [op |-> "get_file_type", arg |-> p,
               val |-> get_file_type(fs, platform, cache, p)]
    /\ cache' = CacheAfter(fs, platform, cache, p)
    /\ UNCHANGED <<platform, fs, segments>>

CallMetadata(p) ==
    /\ CacheRoom(p)
    /\ \E raised \in StatRaises(fs, platform, p) :
          /\ ret' = [op |-> "get_file_metadata", arg |-> p, raised |-> raised,
                     out |-> get_file_metadata(fs, platform, cache, p, raised)]
          /\ cache' = MetadataCacheAfter(fs, platform, cache, p, raised)
    /\ UNCHANGED <<platform, fs, segments>>

Next ==
    \/ FsChange
    \/ \E p \in MetaPaths(platform) : CallFileType(p)
    \/ \E p \in MetaPaths(platform) : CallMetadata(p)

Spec == Init /\ [][Next]_vars

\* The directory operations and fix_path, on any path argument.  The caller
\* makes a call when it is not holding a result, and takes the result before
\* its next call.
Idle == ret.op \in {"init", "fs", "idle"}

TakeResult ==
    /\ ~Idle
    /\ ret' = [op |-> "idle"]
    /\ UNCHANGED <<platform, fs, cache, segments>>

CallFolders(p) ==
    /\ \E listing \in Listdir(fs, platform, p) :
          ret' = [op |-> "get_folders", arg |-> p,
                  out |-> get_folders(fs, platform, p, listing)]
    /\ UNCHANGED <<platform, fs, cache, segments>>

CallFilesFolders(p) ==
    /\ \E listing \in Listdir(fs, platform, p) :
          ret' = [op |-> "get_files_folders", arg |-> p,
                  out |-> get_files_folders(fs, platform, p, listing)]
    /\ UNCHANGED <<platform, fs, cache, segments>>

CallFixPath(p) ==
    /\ ret' = [op |-> "fix_path", arg |-> p, out |-> fix_path(fs, platform, p)]
    /\ UNCHANGED <<platform, fs, cache, segments>>

NextDir ==
    \/ FsChange
    \/ TakeResult
    \/ Idle /\ \E p \in PathArgs(platform) : CallFolders(p)
    \/ Idle /\ \E p \in PathArgs(platform) : CallFilesFolders(p)
    \/ Idle /\ \E p \in PathArgs(platform) : CallFixPath(p)

SpecDir == Init /\ [][NextDir]_vars

\* Path(segments) and as_list() of the result.  The caller holds the list.
InitPath ==
    /\ platform \in Platforms
    /\ fs = EmptyFs
    /\ cache = NoCache
    /\ segments \in SegLists(platform)
    /\ ret = [op |-> "init"]

NewPath ==
    /\ ret.op = "init"
    /\ ret' = [op |-> "Path", arg |-> segments,
               path |-> PathFromList(platform, segments)]
    /\ segments' = (IF segments = <<>> THEN segments ELSE ListAfterInit(segments))
    /\ UNCHANGED <<platform, fs, cache>>

CallAsList ==
    /\ ret.op = "Path"
    /\ ret' = [op |-> "as_list", arg |-> ret.arg, path |-> ret.path,
               val |-> as_list(platform, ret.path)]
    /\ UNCHANGED <<platform, fs, cache, segments>>

NextPath == NewPath \/ CallAsList

SpecPath == InitPath /\ [][NextPath]_vars

\* format_size.
CallFormatSize(d) ==
    /\ ret' = [op |-> "format_size", arg |-> d, val |-> format_size(d)]
    /\ UNCHANGED <<platform, fs, cache, segments>>

NextSize == \E d \in Sizes : CallFormatSize(d)

SpecSize == Init /\ [][NextSize]_vars

-----------------------------------------------------------------------------
(* The claims *)

MetadataFields == {"Path", "Owner", "Last Modified", "File Size", "Item"}

\* C1 as stated: get_file_metadata returns a record, and for a path that does
\* not exist the record is exactly {Error: "File not found: <path>"}.
C1_NotFoundRecord ==
    (ret.op = "get_file_metadata" /\ Walk(fs, platform, ret.arg).st # "ok")
        => /\ ret.out.st = "returned"
           /\ ret.out.rec = ("Error" :> FileNotFoundText \o Repr(ret.arg))

\* C1 as amended: get_file_metadata never raises; it returns the five fields
\* when os.stat succeeds and exactly the field Error when the path does not
\* exist.  The message is "File not found: " and the repr of the path when
\* os.stat raises FileNotFoundError, and the text of the operating system's
\* error when a component before the last is not a directory (POSIX:
\* NotADirectoryError).
C1_ErrorRecord ==
    ret.op = "get_file_metadata" =>
        LET st == Walk(fs, platform, ret.arg).st
            rec == ret.out.rec
        IN /\ ret.out.st = "returned"
           /\ st = "ok" => DOMAIN rec = MetadataFields
           /\ st # "ok" => DOMAIN rec = {"Error"}
           /\ (st = "ENOENT" \/ ret.raised = "FileNotFoundError")
                 => rec["Error"] = FileNotFoundText \o Repr(ret.arg)
           /\ st = "ENOTDIR"
                 => rec["Error"] = OsErrorText("NotADirectoryError") \o Repr(ret.arg)

\* get_file_metadata has answered for a path below a regular file.
C1_Witness ==
    /\ ret.op = "get_file_metadata"
    /\ Walk(fs, platform, ret.arg).st = "ENOTDIR"
    /\ DOMAIN ret.out.rec = {"Error"}

\* C2: the Item of every record get_file_metadata returns is "Folder" exactly
\* when the path is a directory at the time of the call, and otherwise the
\* extension of the path.
C2_ItemFresh ==
    (ret.op = "get_file_metadata" /\ "Item" \in DOMAIN ret.out.rec)
        => ret.out.rec["Item"] = (IF IsDir(fs, platform, ret.arg)
                                  THEN Folder
                                  ELSE SplitExt(platform, ret.arg))

\* C3: the result of every get_file_type call is stored under the path, and a
\* stored entry is never changed or removed; so a second call with an equal
\* path returns what the first returned, whatever happened in between.
C3_CachedResult ==
    [][/\ \A p \in DOMAIN cache : p \in DOMAIN cache' /\ cache'[p] = cache[p]
       /\ ret'.op = "get_file_type"
             => ret'.arg \in DOMAIN cache' /\ cache'[ret'.arg] = ret'.val]_vars

\* A get_file_type call has returned what the filesystem no longer says.
C3_Witness ==
    /\ ret.op = "get_file_type"
    /\ ret.val # FileTypeFresh(fs, platform, ret.arg)

CaseSorted(list) ==
    \A i, j \in 1..Len(list) : i < j => ~StrLess(Lower(list[j]), Lower(list[i]))

\* C4: for a valid directory get_files_folders returns every child exactly
\* once, in files exactly when the parent path joined with the child name is
\* a regular file, both lists in case-insensitive order; for any other path
\* it fails with NotADirectoryError.
C4_Partition ==
    ret.op = "get_files_folders" =>
        LET d == ret.arg
            valid == IsDir(fs, platform, d) \/ d \in {<<>>, <<Sep(platform)>>}
            kids == IF d = <<>> THEN SeqSet(Mountpoints(platform))
                    ELSE ChildNames(fs, Walk(fs, platform, d).node)
            joined(c) == IF d = <<>> THEN c ELSE d \o <<Sep(platform)>> \o c
            files == ret.out.files
            folders == ret.out.folders
        IN IF valid
           THEN /\ ret.out.st = "ok"
                /\ SeqSet(files) \cup SeqSet(folders) = kids
                /\ Len(files) + Len(folders) = Cardinality(kids)
                /\ \A c \in kids :
                      c \in SeqSet(files) <=> IsFile(fs, platform, joined(c))
                /\ CaseSorted(files)
                /\ CaseSorted(folders)
           ELSE ret.out.st = "NotADirectoryError"

\* get_files_folders has listed two files whose order by code point is the
\* reverse of their case-insensitive order.
C4_Witness ==
    /\ ret.op = "get_files_folders"
    /\ ret.out.st = "ok"
    /\ ret.out.files = <<NA, NB>>

\* C5: get_folders fails with FileNotFoundError for every non-empty path that
\* is not an existing directory, and returns get_drives() for the empty path.
C5_Folders ==
    ret.op = "get_folders" =>
        /\ ret.arg = <<>> => ret.out = [st |-> "ok", val |-> Mountpoints(platform)]
        /\ (ret.arg # <<>> /\ ~IsDir(fs, platform, ret.arg))
              => ret.out.st = "FileNotFoundError"

\* get_folders has failed on a path that names a regular file.
C5_Witness ==
    /\ ret.op = "get_folders"
    /\ IsFile(fs, platform, ret.arg)
    /\ ret.out.st = "FileNotFoundError"

\* C6: when fix_path(p) returns, fix_path of its result returns the same path.
C6_Idempotent ==
    (ret.op = "fix_path" /\ ret.out.st = "ok")
        => fix_path(fs, platform, ret.out.val) = [st |-> "ok", val |-> ret.out.val]

\* fix_path has returned for the unrooted name of a symbolic link to a directory.
C6_Witness ==
    /\ ret.op = "fix_path"
    /\ ret.out.st = "ok"
    /\ ret.arg = NB
    /\ Kind(fs, LinkNode) = "link"
    /\ ret.out.val # ret.arg

\* C7: what fix_path returns ends with the separator unless it is the empty
\* path or the bare root marker.
C7_Terminated ==
    (ret.op = "fix_path" /\ ret.out.st = "ok")
        => \/ ret.out.val \in {<<>>, <<"/">>, <<"\\">>}
           \/ EndsWith(ret.out.val, <<Sep(platform)>>)

\* C8 as stated: for a list of segments with no empty string,
\* Path(segments).as_list() is the list.
C8_RoundTrip ==
    (ret.op = "as_list" /\ ~IsIn(ret.arg, <<>>)) => ret.val = ret.arg

\* C8 as amended: for a list of segments none of which is empty, starts or
\* ends with whitespace, or contains the separator, Path(segments).as_list()
\* is the list.
C8_RoundTripPlain ==
    (/\ ret.op = "as_list"
     /\ \A i \in 1..Len(ret.arg) :
           /\ ret.arg[i] # <<>>
           /\ Strip(ret.arg[i]) = ret.arg[i]
           /\ ~IsIn(ret.arg[i], Sep(platform)))
        => ret.val = ret.arg

\* as_list has returned the two plain segments a path was built from.
C8_Witness ==
    /\ ret.op = "as_list"
    /\ ret.arg = <<<<"a", "a">>, <<"a">>>>
    /\ ret.val = ret.arg

\* C9: format_size prints size / 1024^k with the k-th unit, k the least index
\* with size < 1024^(k+1), and the index of ZB from 1024^8 on.
C9_UnitOfNumber ==
    ret.op = "format_size" =>
        LET n == Len(Trim(ret.arg))
            k == IF n = 0 THEN 0 ELSE IF n - 1 < Len(Units) - 1 THEN n - 1
                 ELSE Len(Units) - 1
        IN ret.val = [num |-> Fmt2f(ret.arg, k), unit |-> Units[k + 1]]

\* C10: Path(segments) leaves the caller's list as it was.
C10_ListUnchanged == ret.op = "Path" => segments = ret.arg

====
